---- MODULE Spec2Model ----
(***************************************************************************)
(* Model of the LLMUtility class of the SRK pickup-line MCP server: the    *)
(* provider registry, the fallback chain with retry (generateText and      *)
(* callProvider), response extraction and the local fallback.              *)
(*                                                                         *)
(* One generateText call is followed from its entry to its return. The     *)
(* call is cut at its await points: the fetch (together with the body      *)
(* read that follows a 2xx) and the backoff sleep.                         *)
(***************************************************************************)
EXTENDS Integers, Sequences, FiniteSets, TLC

VARIABLES
    env,         \* process.env: the three credentials read at module load
    providers,   \* this.providers: the registry built by the constructor
    prompt,      \* generateText argument: sequence of characters
    context,     \* generateText argument: record of the context fields
    pc,          \* position of the call: start, call, fetch, sleep, done, threw
                 \* (boot, constructed: before and after the constructor)
    idx,         \* position of the for-of loop of generateText in providers
    attempt,     \* loop variable of callProvider
    attempts,    \* per provider position: number of fetches issued
    n429,        \* per provider position: fetches answered 429
    nTrans,      \* per provider position: fetches rejected (transport, timeout)
    nPerm,       \* per provider position: other non-2xx statuses, bad bodies
    answeredBy,  \* position of the provider of the latest parsed 2xx (0: none)
    answered,    \* the text that response carried
    extracted,   \* the value extractResponse returned for it
    warned,      \* provider positions named by a console.warn of generateText
    sleepMs,     \* duration of the backoff sleep in progress (0: not sleeping)
    backoff,     \* per provider position: total backoff slept, in ms
    result,      \* the value generateText returned
    self,        \* which of the calls in flight is running (1 or 2)
    suspended,   \* the locals of the call that waits at an await
    health,      \* checkProviderHealth: the status recorded per provider position
    tool,        \* the tool request being served: its arguments and its reply
    payload      \* formatPayload: the generation parameters of the request body

vars == << env, providers, prompt, context, pc, idx, attempt, attempts, n429,
           nTrans, nPerm, answeredBy, answered, extracted, warned, sleepMs,
           backoff, result, self, suspended, health, tool,
           payload >>

(***************************************************************************)
(* Bounds of the model.                                                    *)
(***************************************************************************)
MaxTextLen == 1

(***************************************************************************)
(* Settings of the constructor.                                            *)
(***************************************************************************)
\* variant: the constructor leaves the fallback chain disabled
fallbackEnabled_Disabled == FALSE

fallbackEnabled == TRUE

maxRetries == 3

retryDelay == 1000

(***************************************************************************)
(* JavaScript values that are a string, a number or undefined.  A string   *)
(* is a sequence of characters (remote text) or of literal chunks (the     *)
(* templates of the local fallback).  Of the numbers, 0 is falsy and every *)
(* other one used here is truthy.                                          *)
(***************************************************************************)
Undefined == [ty |-> "undefined", s |-> << >>]

Num(n) == [ty |-> "number", n |-> n]

\* a number other than 0
NumberValue == Num(1)

Zero == Num(0)

Str(s) == [ty |-> "string", s |-> s]

Truthy(v) == \/ v.ty = "number" /\ v.n # 0
             \/ v.ty = "string" /\ v.s # << >>

Chars == {" ", "a"}

RECURSIVE SeqsUpTo(_)
SeqsUpTo(n) ==
    IF n = 0 THEN { << >> }
    ELSE LET shorter == SeqsUpTo(n - 1)
         IN  shorter \cup { Append(s, c) : s \in {t \in shorter : Len(t) = n - 1}, c \in Chars }

Texts == SeqsUpTo(MaxTextLen)

RECURSIVE TrimStart(_)
TrimStart(s) == IF s # << >> /\ Head(s) = " " THEN TrimStart(Tail(s)) ELSE s

RECURSIVE TrimEnd(_)
TrimEnd(s) ==
    IF s # << >> /\ s[Len(s)] = " " THEN TrimEnd(SubSeq(s, 1, Len(s) - 1)) ELSE s

Trim(s) == TrimEnd(TrimStart(s))

UpperCaseLetters ==
    << "A", "B", "C", "D", "E", "F", "G", "H", "I", "J", "K", "L", "M",
       "N", "O", "P", "Q", "R", "S", "T", "U", "V", "W", "X", "Y", "Z" >>

LowerCaseLetters ==
    << "a", "b", "c", "d", "e", "f", "g", "h", "i", "j", "k", "l", "m",
       "n", "o", "p", "q", "r", "s", "t", "u", "v", "w", "x", "y", "z" >>

LowerChar(c) ==
    IF \E i \in 1..26 : UpperCaseLetters[i] = c
    THEN LowerCaseLetters[CHOOSE i \in 1..26 : UpperCaseLetters[i] = c]
    ELSE c

ToLowerCase(s) == [i \in 1..Len(s) |-> LowerChar(s[i])]

Includes(s, sub) ==
    \E i \in 0..(Len(s) - Len(sub)) : SubSeq(s, i + 1, i + Len(sub)) = sub

(***************************************************************************)
(* The registry.                                                           *)
(***************************************************************************)
OpenAI == [name |-> "openai", model |-> "gpt-3.5-turbo", priority |-> 1]

Anthropic == [name |-> "anthropic", model |-> "claude-3-haiku-20240307", priority |-> 2]

HuggingFace == [name |-> "huggingface", model |-> "microsoft/DialoGPT-small", priority |-> 3]

RECURSIVE InsertByPriority(_, _)
InsertByPriority(p, list) ==
    IF list = << >> THEN << p >>
    ELSE IF p.priority < Head(list).priority THEN << p >> \o list
    ELSE << Head(list) >> \o InsertByPriority(p, Tail(list))

RECURSIVE SortByPriority(_)
SortByPriority(list) ==
    IF list = << >> THEN << >>
    ELSE InsertByPriority(list[Len(list)], SortByPriority(SubSeq(list, 1, Len(list) - 1)))

\* a credential of the environment is unset or a string; undefined and the
\* empty string are falsy
Credentials == { Undefined, Str(<< >>), Str(<< "k" >>), Str(<< "s", "k" >>) }

Environments == [openai : Credentials, anthropic : Credentials, hf : Credentials]

\* variant: a credential counts as present as soon as it is defined
initializeProviders_Defined(openaiKey, anthropicKey, hfToken) ==
    LET l1 == IF openaiKey # Undefined THEN << OpenAI >> ELSE << >>
        l2 == IF anthropicKey # Undefined THEN Append(l1, Anthropic) ELSE l1
        l3 == IF hfToken # Undefined THEN Append(l2, HuggingFace) ELSE l2
    IN  SortByPriority(l3)

initializeProviders(openaiKey, anthropicKey, hfToken) ==
    LET l1 == IF Truthy(openaiKey) THEN << OpenAI >> ELSE << >>
        l2 == IF Truthy(anthropicKey) THEN Append(l1, Anthropic) ELSE l1
        l3 == IF Truthy(hfToken) THEN Append(l2, HuggingFace) ELSE l2
    IN  SortByPriority(l3)

KnownNames == {"openai", "anthropic", "huggingface"}

\* variant: the switch has no throwing default
FormatPayloadThrows_Never(provider) == FALSE

\* formatPayload throws for a provider name outside its switch
FormatPayloadThrows(provider) == provider.name \notin KnownNames

(***************************************************************************)
(* Responses of a fetch.                                                   *)
(***************************************************************************)
Statuses == {200, 429, 500}

Shapes == {"chat", "message", "array", "object", "null"}

Contents == {Undefined, NumberValue, Zero} \cup { Str(t) : t \in Texts }

\* what `await fetch(...)` settles with: a rejection (transport error, or the
\* abort of AbortSignal.timeout) or a response with a status
Responses ==
    { [kind |-> k, status |-> 0] : k \in {"neterr", "timeout"} }
    \cup
    { [kind |-> "http", status |-> s] : s \in Statuses }

\* what `await response.json()` settles with: a rejection (the body does not
\* arrive or is not JSON) or the parsed body
Bodies ==
    { [parseable |-> FALSE, shape |-> "null", content |-> Undefined] }
    \cup
    { [parseable |-> TRUE, shape |-> sh, content |-> c] :
          sh \in Shapes, c \in Contents }

ResponseOk(r) == r.kind = "http" /\ r.status >= 200 /\ r.status <= 299

(***************************************************************************)
(* extractResponse.  A body of shape "chat" is                             *)
(*   {choices: [{message: {content: c}}]},                                 *)
(* of shape "message" {content: [{text: c}]}, of shape "array"             *)
(*   [{generated_text: c}], of shape "object" {generated_text: c}, and of  *)
(* shape "null" the JSON value null.                                       *)
(***************************************************************************)
IsArray(data) == data.shape = "array"

\* the body shape each backend documents for its answers
NativeShape(provider) ==
    CASE provider.name = "openai" -> "chat"
      [] provider.name = "anthropic" -> "message"
      [] OTHER -> "array"

\* the text the backend put into its answer: the content of a body of its
\* shape when that is a string, the empty string otherwise
TextField(provider, data) ==
    IF data.shape = NativeShape(provider) /\ data.content.ty = "string"
    THEN data.content
    ELSE Str(<< >>)

\* data.choices?.[0]?.message?.content
ChoicesContent(data) == IF data.shape = "chat" THEN data.content ELSE Undefined

\* data?.generated_text, a property of the body itself
GeneratedText(data) == IF data.shape = "object" THEN data.content ELSE Undefined

\* data.choices on null is a TypeError
ExtractThrows(provider, data) ==
    provider.name = "openai" /\ data.shape = "null"

\* variant: a placeholder text stands in for an absent or empty content
extractResponse_Placeholder(provider, data) ==
    CASE provider.name = "openai" ->
            IF Truthy(ChoicesContent(data)) THEN ChoicesContent(data) ELSE Str(<< "a" >>)
      [] OTHER -> Str(<< >>)

extractResponse(provider, data) ==
    CASE provider.name = "openai" ->
            IF Truthy(ChoicesContent(data)) THEN ChoicesContent(data) ELSE Str(<< >>)
      [] provider.name = "huggingface" ->
            \* data.inputs is absent, so replace("", "") leaves the text
            IF IsArray(data) /\ Truthy(GeneratedText(data))
            THEN Str(Trim(GeneratedText(data).s))
            ELSE Str(<< >>)
      [] OTHER -> Str(<< >>)

(***************************************************************************)
(* The local fallback.                                                     *)
(***************************************************************************)
\* variant: `&&` written for `||`
Or_And(v, default) == IF v # "" THEN default ELSE v

Or(v, default) == IF v # "" THEN v ELSE default

PickupTemplates(ctx) ==
    << << "Just like Shah Rukh Khan in his movies, ", Or(ctx.userInfo, "you"),
          " have made my heart skip a beat!" >>,
       << "If I were to write a love story, ", Or(ctx.userInfo, "beautiful"),
          ", you would be both the beginning and the happy ending." >>,
       << "Main hoon na, ", Or(ctx.userInfo, "gorgeous"),
          "? Because like SRK, I promise to always be there for you." >> >>

GreetingTemplate(ctx) ==
    << "Namaste ", Or(ctx.name, "beautiful"),
       "! Like in my movies, you've made my heart do a little dance" >>

GratitudeTemplate(ctx) ==
    << "Anything for you, ", Or(ctx.name, "gorgeous"),
       "! Like I always say in my films - main hoon na!" >>

GenericFlirtyTemplate(ctx) ==
    << "You always know just what to say to make me smile, ",
       Or(ctx.name, "beautiful"), "!" >>

GenericFallback == << "I'm here to help! Let me know what you'd like to know." >>

\* pickRandom: any index of the array
pickRandom(array) == { array[i] : i \in 1..Len(array) }

\* the set of strings getFallbackResponse can return
getFallbackResponse(p, ctx) ==
    LET promptLower == ToLowerCase(p)
    IN  IF ctx.type = "pickup_line" THEN pickRandom(PickupTemplates(ctx))
        ELSE IF ctx.type = "flirty_reply" THEN
            IF Includes(promptLower, << "h", "e", "l", "l", "o" >>)
               \/ Includes(promptLower, << "h", "i" >>)
            THEN { GreetingTemplate(ctx) }
            ELSE IF Includes(promptLower, << "t", "h", "a", "n", "k" >>)
            THEN { GratitudeTemplate(ctx) }
            ELSE { GenericFlirtyTemplate(ctx) }
        ELSE { GenericFallback }

(***************************************************************************)
(* Values generateText returns.  A returned string primitive has no text,  *)
(* provider or model property: reading them gives undefined.               *)
(***************************************************************************)
NoResult ==
    [shape |-> "none", str |-> << >>, text |-> Undefined,
     provider |-> "undefined", model |-> "undefined"]

StringResult(s) ==
    [shape |-> "string", str |-> s, text |-> Undefined,
     provider |-> "undefined", model |-> "undefined"]

RecordResult(t, prov, mod) ==
    [shape |-> "record", str |-> << >>, text |-> t, provider |-> prov, model |-> mod]

\* generateText, providers.length === 0
EmptyRegistryResults(p, ctx) ==
    { StringResult(s) : s \in getFallbackResponse(p, ctx) }

\* variant: the bare fallback string is returned after the loop as well
AllFailedResults_Bare(p, ctx) ==
    { StringResult(s) : s \in getFallbackResponse(p, ctx) }

\* generateText, after the loop
AllFailedResults(p, ctx) ==
    { RecordResult(Str(s), "fallback", "local") : s \in getFallbackResponse(p, ctx) }

\* generateText: response && response.trim().length > 0
TrimThrows(v) == v.ty = "number"

\* variant: the test is `if (response)`, without the trim
Usable_NoTrim(v) == v.ty = "string" /\ v.s # << >>

Usable(v) == v.ty = "string" /\ v.s # << >> /\ Len(Trim(v.s)) > 0

(***************************************************************************)
(* Initial states: the constructor has run on some environment and a       *)
(* caller enters generateText with a prompt and a context.                 *)
(***************************************************************************)
Prompts == { << "H", "i" >>, << "t", "h", "a", "n", "k", "s" >>, << "o", "k" >> }

Context(t, u) == [type |-> t, userInfo |-> u, name |-> ""]

\* the (prompt, context) pairs callers pass, one of each template family
CallInputs ==
    { << << "o", "k" >>, Context("pickup_line", "Raj") >>,
      << << "t", "h", "a", "n", "k", "s" >>, Context("flirty_reply", "") >>,
      << << "H", "i" >>, Context("unset", "") >> }

Positions == 1..Len(providers)

\* the arguments and locals of a call that has not been entered yet
Fresh(p, ctx) ==
    [prompt |-> p, context |-> ctx, pc |-> "start", idx |-> 0, attempt |-> 0,
     attempts |-> [i \in 1..3 |-> 0], n429 |-> [i \in 1..3 |-> 0],
     nTrans |-> [i \in 1..3 |-> 0], nPerm |-> [i \in 1..3 |-> 0],
     answeredBy |-> 0, answered |-> Undefined, extracted |-> Undefined,
     warned |-> {}, sleepMs |-> 0, backoff |-> [i \in 1..3 |-> 0],
     result |-> NoResult]

\* no request body has been built
NoPayload == [kind |-> "none"]

\* no tool request is being served
NoTool == [name |-> "none"]

\* the `results` object of checkProviderHealth before any probe
NoHealth == [i \in 1..3 |-> "none"]

\* no second call is in flight
NoCall == [Fresh(<< >>, Context("unset", "")) EXCEPT !.pc = "none"]

\* the environments of a running server: each credential unset or set
RunningEnvironments ==
    { e \in Environments : \A f \in DOMAIN e : e[f] \in {Undefined, Str(<< "k" >>)} }

Init ==
    /\ env \in RunningEnvironments
    /\ providers = initializeProviders(env.openai, env.anthropic, env.hf)
    /\ \E in \in CallInputs : prompt = in[1] /\ context = in[2]
    /\ pc = "start"
    /\ idx = 0
    /\ attempt = 0
    /\ attempts = [i \in 1..3 |-> 0]
    /\ n429 = [i \in 1..3 |-> 0]
    /\ nTrans = [i \in 1..3 |-> 0]
    /\ nPerm = [i \in 1..3 |-> 0]
    /\ answeredBy = 0
    /\ answered = Undefined
    /\ extracted = Undefined
    /\ warned = {}
    /\ sleepMs = 0
    /\ backoff = [i \in 1..3 |-> 0]
    /\ result = NoResult
    /\ self = 1
    /\ health = NoHealth
    /\ payload = NoPayload
    /\ tool = NoTool
    /\ suspended = NoCall

(***************************************************************************)
(* generateText, entry: the empty registry returns the fallback at once,   *)
(* otherwise the loop starts at the first provider.                        *)
(***************************************************************************)
FirstIndex == 1

\* variant: the loop steps over a provider
NextIndex_Skip(i) == i + 2

NextIndex(i) == i + 1

GenerateTextStart ==
    /\ pc = "start"
    /\ IF Len(providers) = 0
       THEN /\ result' \in EmptyRegistryResults(prompt, context)
            /\ pc' = "done"
            /\ UNCHANGED idx
       ELSE /\ idx' = FirstIndex
            /\ pc' = "call"
            /\ UNCHANGED result
    /\ UNCHANGED << health, tool, payload, self, suspended, env, providers, prompt, context, attempt, attempts, n429, nTrans,
                    nPerm, answeredBy, answered, extracted, warned, sleepMs, backoff >>

(***************************************************************************)
(* The catch block of generateText: warn, rethrow when the fallback is     *)
(* disabled, otherwise go on with the next provider.                       *)
(***************************************************************************)
ProviderThrew ==
    /\ warned' = warned \cup {idx}
    /\ IF ~fallbackEnabled
       THEN pc' = "threw" /\ UNCHANGED idx
       ELSE pc' = "call" /\ idx' = NextIndex(idx)

\* variant: the text is recorded but the loop goes on (a missing return)
ProviderSucceeded_NoReturn(v) ==
    /\ result' = RecordResult(v, providers[idx].name, providers[idx].model)
    /\ pc' = "call"
    /\ idx' = NextIndex(idx)
    /\ UNCHANGED warned

\* generateText: the provider's text is returned, the loop is left
ProviderSucceeded(v) ==
    /\ result' = RecordResult(v, providers[idx].name, providers[idx].model)
    /\ pc' = "done"
    /\ UNCHANGED << idx, warned >>

\* callProvider returned a value that generateText does not accept
ProviderUnusable ==
    /\ pc' = "call"
    /\ idx' = NextIndex(idx)
    /\ UNCHANGED warned

(***************************************************************************)
(* generateText, loop head: after the last provider the fallback record    *)
(* is returned; otherwise callProvider builds the payload and issues its   *)
(* first fetch.                                                            *)
(***************************************************************************)
\* variant: the loop takes its provider off the registry
IteratedRegistry_Shift(ps) == IF ps = << >> THEN ps ELSE Tail(ps)

\* `for (const provider of this.providers)` reads the array in place
IteratedRegistry(ps) == ps

CallProvider ==
    /\ pc = "call"
    /\ IF idx > Len(providers)
       THEN /\ result' \in AllFailedResults(prompt, context)
            /\ pc' = "done"
            /\ UNCHANGED << idx, attempt, attempts, warned >>
       ELSE IF FormatPayloadThrows(providers[idx])
       THEN /\ ProviderThrew
            /\ UNCHANGED << attempt, attempts, result >>
       ELSE /\ attempt' = 1
            /\ attempts' = [attempts EXCEPT ![idx] = @ + 1]
            /\ pc' = "fetch"
            /\ UNCHANGED << idx, warned, result >>
    /\ providers' = IteratedRegistry(providers)
    /\ UNCHANGED << health, tool, payload, self, suspended, env, prompt, context, n429, nTrans, nPerm,
                    answeredBy, answered, extracted, sleepMs, backoff >>

(***************************************************************************)
(* callProvider, the catch block of an attempt: rethrow on the last        *)
(* attempt, otherwise back off.                                            *)
(***************************************************************************)
\* variant: the first failure is already taken for the last
IsLastAttempt_First(a) == a = 1

IsLastAttempt(a) == a = maxRetries

\* variant: the delay does not grow with the attempt number
BackoffDelay_Constant(a) == retryDelay

BackoffDelay(a) == retryDelay * a

AttemptThrew ==
    IF IsLastAttempt(attempt)
    THEN /\ ProviderThrew
         /\ UNCHANGED << sleepMs, backoff >>
    ELSE /\ pc' = "sleep"
         /\ sleepMs' = BackoffDelay(attempt)
         /\ backoff' = [backoff EXCEPT ![idx] = @ + BackoffDelay(attempt)]
         /\ UNCHANGED << idx, warned >>

\* a status the retry loop answers with a sleep and `continue`
IsRateLimit(status) == status = 429

(***************************************************************************)
(* The fetch of the current attempt settles with r: a rejection and a      *)
(* status that is not ok end the attempt; on an ok status callProvider     *)
(* awaits response.json().                                                 *)
(***************************************************************************)
FetchCompletes(r) ==
    /\ pc = "fetch"
    /\ IF r.kind # "http"
       THEN \* fetch rejected: transport error or AbortSignal.timeout
            /\ nTrans' = [nTrans EXCEPT ![idx] = @ + 1]
            /\ AttemptThrew
            /\ UNCHANGED << n429, nPerm >>
       ELSE IF ~ResponseOk(r) /\ IsRateLimit(r.status)
       THEN /\ n429' = [n429 EXCEPT ![idx] = @ + 1]
            /\ pc' = "sleep"
            /\ sleepMs' = BackoffDelay(attempt)
            /\ backoff' = [backoff EXCEPT ![idx] = @ + BackoffDelay(attempt)]
            /\ UNCHANGED << idx, warned, nTrans, nPerm >>
       ELSE IF ~ResponseOk(r)
       THEN \* throw new Error(`HTTP ...`)
            /\ nPerm' = [nPerm EXCEPT ![idx] = @ + 1]
            /\ AttemptThrew
            /\ UNCHANGED << n429, nTrans >>
       ELSE /\ pc' = "json"
            /\ UNCHANGED << idx, warned, n429, nTrans, nPerm, sleepMs, backoff >>
    /\ UNCHANGED << health, tool, payload, self, suspended, env, providers, prompt, context, attempt, attempts,
                    answeredBy, answered, extracted, result >>

(***************************************************************************)
(* response.json() settles with data: a rejection and a throw of           *)
(* extractResponse end the attempt; otherwise callProvider returns the     *)
(* extracted value and generateText tests it.                              *)
(***************************************************************************)
JsonCompletes(data) ==
    /\ pc = "json"
    /\ IF ~data.parseable \/ ExtractThrows(providers[idx], data)
       THEN /\ nPerm' = [nPerm EXCEPT ![idx] = @ + 1]
            /\ AttemptThrew
            /\ UNCHANGED << answeredBy, answered, extracted, result >>
       ELSE LET v == extractResponse(providers[idx], data)
            IN  /\ extracted' = v
                /\ answered' = TextField(providers[idx], data)
                /\ answeredBy' = idx
                /\ IF Truthy(v) /\ TrimThrows(v)
                   THEN ProviderThrew /\ UNCHANGED result
                   ELSE IF Usable(v)
                   THEN ProviderSucceeded(v)
                   ELSE ProviderUnusable /\ UNCHANGED result
                /\ UNCHANGED << nPerm, sleepMs, backoff >>
    /\ UNCHANGED << health, tool, payload, self, suspended, env, providers, prompt, context, attempt, attempts,
                    n429, nTrans >>

(***************************************************************************)
(* The backoff sleep elapses: the loop variable is incremented; the loop   *)
(* either issues the next fetch or ends, and callProvider then returns     *)
(* undefined.                                                              *)
(***************************************************************************)
\* variant: the loop variable is not incremented
NextAttempt_Same(a) == a

\* the `attempt++` of the retry loop
NextAttempt(a) == a + 1

\* variant: an off-by-one in the loop condition
LoopContinues_OneMore(a) == a <= maxRetries + 1

\* the condition of the retry loop
LoopContinues(a) == a <= maxRetries

SleepElapses ==
    /\ pc = "sleep"
    /\ attempt' = NextAttempt(attempt)
    /\ IF LoopContinues(NextAttempt(attempt))
       THEN /\ attempts' = [attempts EXCEPT ![idx] = @ + 1]
            /\ pc' = "fetch"
            /\ UNCHANGED << idx, warned >>
       ELSE /\ ProviderUnusable
            /\ UNCHANGED attempts
    /\ sleepMs' = 0
    /\ UNCHANGED << health, tool, payload, self, suspended, env, providers, prompt, context, n429, nTrans, nPerm, answeredBy,
                    answered, extracted, backoff, result >>

Next ==
    \/ GenerateTextStart
    \/ CallProvider
    \/ \E r \in Responses : FetchCompletes(r)
    \/ \E data \in Bodies : JsonCompletes(data)
    \/ SleepElapses

Spec == Init /\ [][Next]_vars

\* every pending fetch completes and every backoff sleep elapses
FairSpec == Spec /\ WF_vars(Next)

(***************************************************************************)
(* checkProviderHealth: every provider of the registry is probed with      *)
(* callProvider(provider, "Test", {maxTokens: 1}); a probe that returns    *)
(* is recorded "healthy", one that throws "unhealthy".                     *)
(***************************************************************************)
InitHealth ==
    /\ env \in RunningEnvironments
    /\ providers = initializeProviders(env.openai, env.anthropic, env.hf)
    /\ prompt = << "T", "e", "s", "t" >>
    /\ context = Context("unset", "")
    /\ pc = "hstart"
    /\ idx = 0
    /\ attempt = 0
    /\ attempts = [i \in 1..3 |-> 0]
    /\ n429 = [i \in 1..3 |-> 0]
    /\ nTrans = [i \in 1..3 |-> 0]
    /\ nPerm = [i \in 1..3 |-> 0]
    /\ answeredBy = 0
    /\ answered = Undefined
    /\ extracted = Undefined
    /\ warned = {}
    /\ sleepMs = 0
    /\ backoff = [i \in 1..3 |-> 0]
    /\ result = NoResult
    /\ self = 1
    /\ health = NoHealth
    /\ payload = NoPayload
    /\ tool = NoTool
    /\ suspended = NoCall

CheckProviderHealthStart ==
    /\ pc = "hstart"
    /\ idx' = FirstIndex
    /\ pc' = "hcall"
    /\ UNCHANGED << health, tool, payload, self, suspended, env, providers, prompt, context, attempt,
                    attempts, n429, nTrans, nPerm, answeredBy, answered, extracted,
                    warned, sleepMs, backoff, result >>

\* the catch block of checkProviderHealth
ProbeThrew ==
    /\ health' = [health EXCEPT ![idx] = "unhealthy"]
    /\ pc' = "hcall"
    /\ idx' = NextIndex(idx)

\* callProvider returned, with whatever value
ProbeReturned ==
    /\ health' = [health EXCEPT ![idx] = "healthy"]
    /\ pc' = "hcall"
    /\ idx' = NextIndex(idx)

\* loop head: `return results` after the last provider, otherwise
\* callProvider builds the payload and issues its first fetch
Probe ==
    /\ pc = "hcall"
    /\ IF idx > Len(providers)
       THEN /\ pc' = "hdone"
            /\ UNCHANGED << idx, attempt, attempts, health >>
       ELSE IF FormatPayloadThrows(providers[idx])
       THEN /\ ProbeThrew
            /\ UNCHANGED << attempt, attempts >>
       ELSE /\ attempt' = 1
            /\ attempts' = [attempts EXCEPT ![idx] = @ + 1]
            /\ pc' = "hfetch"
            /\ UNCHANGED << idx, health >>
    /\ providers' = IteratedRegistry(providers)
    /\ UNCHANGED << tool, payload, self, suspended, env, prompt, context, n429, nTrans, nPerm,
                    answeredBy, answered, extracted, warned, sleepMs, backoff, result >>

\* callProvider, the catch block of an attempt of the probe
ProbeAttemptThrew ==
    IF IsLastAttempt(attempt)
    THEN /\ ProbeThrew
         /\ UNCHANGED << sleepMs, backoff >>
    ELSE /\ pc' = "hsleep"
         /\ sleepMs' = BackoffDelay(attempt)
         /\ backoff' = [backoff EXCEPT ![idx] = @ + BackoffDelay(attempt)]
         /\ UNCHANGED << idx, health >>

\* the fetch of the current probe attempt settles with r; on an ok status
\* callProvider awaits response.json()
ProbeFetchCompletes(r) ==
    /\ pc = "hfetch"
    /\ IF r.kind # "http"
       THEN /\ nTrans' = [nTrans EXCEPT ![idx] = @ + 1]
            /\ ProbeAttemptThrew
            /\ UNCHANGED << n429, nPerm >>
       ELSE IF ~ResponseOk(r) /\ IsRateLimit(r.status)
       THEN /\ n429' = [n429 EXCEPT ![idx] = @ + 1]
            /\ pc' = "hsleep"
            /\ sleepMs' = BackoffDelay(attempt)
            /\ backoff' = [backoff EXCEPT ![idx] = @ + BackoffDelay(attempt)]
            /\ UNCHANGED << idx, health, nTrans, nPerm >>
       ELSE IF ~ResponseOk(r)
       THEN /\ nPerm' = [nPerm EXCEPT ![idx] = @ + 1]
            /\ ProbeAttemptThrew
            /\ UNCHANGED << n429, nTrans >>
       ELSE /\ pc' = "hjson"
            /\ UNCHANGED << idx, health, n429, nTrans, nPerm, sleepMs, backoff >>
    /\ UNCHANGED << tool, payload, self, suspended, env, providers, prompt, context, attempt, attempts,
                    warned, result, answeredBy, answered, extracted >>

\* response.json() of the probe settles with data; a probe whose
\* callProvider returns is healthy whatever the value
ProbeJsonCompletes(data) ==
    /\ pc = "hjson"
    /\ IF ~data.parseable \/ ExtractThrows(providers[idx], data)
       THEN /\ nPerm' = [nPerm EXCEPT ![idx] = @ + 1]
            /\ ProbeAttemptThrew
            /\ UNCHANGED << answeredBy, answered, extracted >>
       ELSE /\ extracted' = extractResponse(providers[idx], data)
            /\ answered' = TextField(providers[idx], data)
            /\ answeredBy' = idx
            /\ ProbeReturned
            /\ UNCHANGED << nPerm, sleepMs, backoff >>
    /\ UNCHANGED << tool, payload, self, suspended, env, providers, prompt, context, attempt, attempts,
                    warned, result, n429, nTrans >>

\* the backoff sleep of the probe elapses
ProbeSleepElapses ==
    /\ pc = "hsleep"
    /\ attempt' = NextAttempt(attempt)
    /\ IF LoopContinues(NextAttempt(attempt))
       THEN /\ attempts' = [attempts EXCEPT ![idx] = @ + 1]
            /\ pc' = "hfetch"
            /\ UNCHANGED << idx, health >>
       ELSE /\ ProbeReturned
            /\ UNCHANGED attempts
    /\ sleepMs' = 0
    /\ UNCHANGED << tool, payload, self, suspended, env, providers, prompt, context, n429, nTrans,
                    nPerm, answeredBy, answered, extracted, warned, backoff, result >>

NextHealth ==
    \/ CheckProviderHealthStart
    \/ Probe
    \/ \E r \in Responses : ProbeFetchCompletes(r)
    \/ \E data \in Bodies : ProbeJsonCompletes(data)
    \/ ProbeSleepElapses

SpecHealth == InitHealth /\ [][NextHealth]_vars

(***************************************************************************)
(* A registry that holds a descriptor formatPayload has no case for (a     *)
(* backend added to the list but not to the switch), at any priority.      *)
(***************************************************************************)
UnknownDescriptor(k) == [name |-> "cohere", model |-> "command", priority |-> k]

InitMisconfigured ==
    /\ env \in { e \in RunningEnvironments : \E f \in DOMAIN e : e[f] = Undefined }
    /\ \E k \in 0..3 :
          providers = SortByPriority(Append(initializeProviders(env.openai, env.anthropic,
                                                                 env.hf),
                                            UnknownDescriptor(k)))
    /\ \E in \in CallInputs : prompt = in[1] /\ context = in[2]
    /\ pc = "start"
    /\ idx = 0
    /\ attempt = 0
    /\ attempts = [i \in 1..3 |-> 0]
    /\ n429 = [i \in 1..3 |-> 0]
    /\ nTrans = [i \in 1..3 |-> 0]
    /\ nPerm = [i \in 1..3 |-> 0]
    /\ answeredBy = 0
    /\ answered = Undefined
    /\ extracted = Undefined
    /\ warned = {}
    /\ sleepMs = 0
    /\ backoff = [i \in 1..3 |-> 0]
    /\ result = NoResult
    /\ self = 1
    /\ health = NoHealth
    /\ payload = NoPayload
    /\ tool = NoTool
    /\ suspended = NoCall

SpecMisconfigured == InitMisconfigured /\ [][Next]_vars

(***************************************************************************)
(* formatPayload on its own.  Numbers are JavaScript numbers; a            *)
(* temperature is counted in tenths (8 stands for 0.8).  `a || b` yields b *)
(* when a is undefined or 0.                                               *)
(***************************************************************************)
\* v || default
OrDefault(v, default) ==
    IF v.ty = "undefined" \/ (v.ty = "number" /\ v.n = 0) THEN default ELSE v

\* the max-token and temperature fields of the body built for a provider:
\* max_tokens / temperature for openai and anthropic, parameters.max_new_tokens
\* / parameters.temperature for huggingface
formatPayload(provider, ctx) ==
    CASE provider.name = "openai" ->
            [kind |-> "openai",
             max_tokens |-> OrDefault(ctx.maxTokens, Num(150)),
             temperature |-> OrDefault(ctx.temperature, Num(8))]
      [] provider.name = "anthropic" ->
            [kind |-> "anthropic",
             max_tokens |-> OrDefault(ctx.maxTokens, Num(150)),
             temperature |-> OrDefault(ctx.temperature, Num(8))]
      [] provider.name = "huggingface" ->
            [kind |-> "huggingface",
             max_tokens |-> OrDefault(ctx.maxTokens, Num(150)),
             temperature |-> OrDefault(ctx.temperature, Num(8))]

\* contexts with the generation parameters: maxTokens absent or a positive
\* integer, temperature absent or 0.0, 0.1, ..., 1.0
PayloadContexts ==
    { [type |-> "unset", userInfo |-> "", name |-> "", maxTokens |-> m, temperature |-> t] :
          m \in {Undefined} \cup { Num(n) : n \in {1, 100, 150, 4096} },
          t \in {Undefined} \cup { Num(n) : n \in 0..10 } }

InitPayload ==
    /\ env \in { e \in RunningEnvironments : \E f \in DOMAIN e : e[f] # Undefined }
    /\ providers = initializeProviders(env.openai, env.anthropic, env.hf)
    /\ prompt = << "T", "e", "s", "t" >>
    /\ context \in PayloadContexts
    /\ pc = "payload"
    /\ idx \in 1..Len(providers)
    /\ attempt = 0
    /\ attempts = [i \in 1..3 |-> 0]
    /\ n429 = [i \in 1..3 |-> 0]
    /\ nTrans = [i \in 1..3 |-> 0]
    /\ nPerm = [i \in 1..3 |-> 0]
    /\ answeredBy = 0
    /\ answered = Undefined
    /\ extracted = Undefined
    /\ warned = {}
    /\ sleepMs = 0
    /\ backoff = [i \in 1..3 |-> 0]
    /\ result = NoResult
    /\ self = 1
    /\ health = NoHealth
    /\ tool = NoTool
    /\ payload = NoPayload
    /\ suspended = NoCall

\* callProvider's first line: the body for providers[idx] is built
FormatPayload ==
    /\ pc = "payload"
    /\ payload' = formatPayload(providers[idx], context)
    /\ pc' = "formatted"
    /\ UNCHANGED << tool, self, suspended, env, providers, health, prompt, context,
                    idx, attempt, attempts, n429, nTrans, nPerm, answeredBy, answered,
                    extracted, warned, sleepMs, backoff, result >>

NextPayload == FormatPayload

SpecPayload == InitPayload /\ [][NextPayload]_vars

(***************************************************************************)
(* The instance in service: a generateText call or a health check.         *)
(***************************************************************************)
InitInstance == Init \/ InitHealth

NextInstance == Next \/ NextHealth

SpecInstance == InitInstance /\ [][NextInstance]_vars

(***************************************************************************)
(* The constructor on its own: the module is loaded with some environment  *)
(* and `new LLMUtility()` builds the registry.                             *)
(***************************************************************************)
InitRegistry ==
    /\ env \in Environments
    /\ providers = << >>
    /\ prompt = << >>
    /\ context = Context("unset", "")
    /\ pc = "boot"
    /\ idx = 0
    /\ attempt = 0
    /\ attempts = [i \in 1..3 |-> 0]
    /\ n429 = [i \in 1..3 |-> 0]
    /\ nTrans = [i \in 1..3 |-> 0]
    /\ nPerm = [i \in 1..3 |-> 0]
    /\ answeredBy = 0
    /\ answered = Undefined
    /\ extracted = Undefined
    /\ warned = {}
    /\ sleepMs = 0
    /\ backoff = [i \in 1..3 |-> 0]
    /\ result = NoResult
    /\ self = 1
    /\ health = NoHealth
    /\ payload = NoPayload
    /\ tool = NoTool
    /\ suspended = NoCall

Construct ==
    /\ pc = "boot"
    /\ providers' = initializeProviders(env.openai, env.anthropic, env.hf)
    /\ pc' = "constructed"
    /\ UNCHANGED << health, tool, payload, self, suspended, env, prompt, context, idx, attempt, attempts,
                    n429, nTrans, nPerm, answeredBy, answered, extracted, warned,
                    sleepMs, backoff, result >>

NextRegistry == Construct

SpecRegistry == InitRegistry /\ [][NextRegistry]_vars

TypeOK ==
    /\ pc \in {"start", "call", "fetch", "json", "sleep", "done", "threw",
              "hstart", "hcall", "hfetch", "hjson", "hsleep", "hdone",
              "boot", "constructed", "tool", "replied", "payload", "formatted"}
    /\ \A i \in 1..3 : health[i] \in {"none", "healthy", "unhealthy"}
    /\ idx \in 0..4
    /\ \A i \in 1..3 : attempts[i] \in 0..maxRetries

(***************************************************************************)
(* The local fallback on its own: no credential is set, so generateText    *)
(* returns what getFallbackResponse gives for the caller's prompt and      *)
(* context.                                                                *)
(***************************************************************************)
NoCredentials == [openai |-> Undefined, anthropic |-> Undefined, hf |-> Undefined]

\* "unset": no type field; "other": a type no family is registered for
FallbackContexts ==
    { [type |-> t, userInfo |-> u, name |-> n] :
          t \in {"pickup_line", "flirty_reply", "unset", "other"},
          u \in {"", "Raj"},
          n \in {"", "Simran"} }

InitFallback ==
    /\ env = NoCredentials
    /\ providers = initializeProviders(env.openai, env.anthropic, env.hf)
    /\ prompt \in Prompts
    /\ context \in FallbackContexts
    /\ pc = "start"
    /\ idx = 0
    /\ attempt = 0
    /\ attempts = [i \in 1..3 |-> 0]
    /\ n429 = [i \in 1..3 |-> 0]
    /\ nTrans = [i \in 1..3 |-> 0]
    /\ nPerm = [i \in 1..3 |-> 0]
    /\ answeredBy = 0
    /\ answered = Undefined
    /\ extracted = Undefined
    /\ warned = {}
    /\ sleepMs = 0
    /\ backoff = [i \in 1..3 |-> 0]
    /\ result = NoResult
    /\ self = 1
    /\ health = NoHealth
    /\ payload = NoPayload
    /\ tool = NoTool
    /\ suspended = NoCall

NextFallback == GenerateTextStart

SpecFallback == InitFallback /\ [][NextFallback]_vars

(***************************************************************************)
(* The second copy of the class (src/app/api/mcp/route.ts): initProviders, *)
(* generateText, call, extract, fallback, delay.  Its retry loop has no    *)
(* try/catch, so whatever an attempt throws leaves `call` at once.         *)
(***************************************************************************)
\* the same three `if (KEY) list.push(...)` and the same sort
initProviders(openaiKey, anthropicKey, hfToken) ==
    LET l1 == IF Truthy(openaiKey) THEN << OpenAI >> ELSE << >>
        l2 == IF Truthy(anthropicKey) THEN Append(l1, Anthropic) ELSE l1
        l3 == IF Truthy(hfToken) THEN Append(l2, HuggingFace) ELSE l2
    IN  SortByPriority(l3)

\* data?.content?.[0]?.text
ContentText(data) == IF data.shape = "message" THEN data.content ELSE Undefined

\* data[0]?.generated_text
FirstGeneratedText(data) == IF data.shape = "array" THEN data.content ELSE Undefined

\* data.choices on null, and .replace on a generated_text that is a number
\* other than 0 (the branch is entered on a truthy value only), are
\* TypeErrors
extractThrows(provider, data) ==
    \/ provider.name = "openai" /\ data.shape = "null"
    \/ /\ provider.name = "huggingface"
       /\ IsArray(data)
       /\ Truthy(FirstGeneratedText(data))
       /\ FirstGeneratedText(data).ty = "number"

extract(provider, data) ==
    IF provider.name = "openai"
    THEN IF Truthy(ChoicesContent(data)) THEN ChoicesContent(data) ELSE Str(<< >>)
    ELSE IF provider.name = "anthropic"
    THEN IF Truthy(ContentText(data)) THEN ContentText(data) ELSE Str(<< >>)
    ELSE IF /\ provider.name = "huggingface"
            /\ IsArray(data)
            /\ Truthy(FirstGeneratedText(data))
    THEN \* data[0].inputs is absent, so replace("", "") leaves the text
         Str(Trim(FirstGeneratedText(data).s))
    ELSE Str(<< >>)

\* the fixed text (it is preceded by a robot emoji in the source)
fallback(p, ctx) == << "(fallback response)" >>

FallbackRecord(p, ctx) == RecordResult(Str(fallback(p, ctx)), "fallback", "local")

InitShort ==
    /\ env \in RunningEnvironments
    /\ providers = initProviders(env.openai, env.anthropic, env.hf)
    /\ \E in \in CallInputs : prompt = in[1] /\ context = in[2]
    /\ pc = "start"
    /\ idx = 0
    /\ attempt = 0
    /\ attempts = [i \in 1..3 |-> 0]
    /\ n429 = [i \in 1..3 |-> 0]
    /\ nTrans = [i \in 1..3 |-> 0]
    /\ nPerm = [i \in 1..3 |-> 0]
    /\ answeredBy = 0
    /\ answered = Undefined
    /\ extracted = Undefined
    /\ warned = {}
    /\ sleepMs = 0
    /\ backoff = [i \in 1..3 |-> 0]
    /\ result = NoResult
    /\ self = 1
    /\ health = NoHealth
    /\ payload = NoPayload
    /\ tool = NoTool
    /\ suspended = NoCall

\* generateText, entry
GenerateTextStartShort ==
    /\ pc = "start"
    /\ IF Len(providers) = 0
       THEN /\ result' = FallbackRecord(prompt, context)
            /\ pc' = "done"
            /\ UNCHANGED idx
       ELSE /\ idx' = 1
            /\ pc' = "call"
            /\ UNCHANGED result
    /\ UNCHANGED << health, tool, payload, self, suspended, env, providers, prompt, context, attempt, attempts, n429, nTrans,
                    nPerm, answeredBy, answered, extracted, warned, sleepMs, backoff >>

\* generateText, the catch block: warn and go on with the next provider
CallThrew ==
    /\ warned' = warned \cup {idx}
    /\ pc' = "call"
    /\ idx' = idx + 1

\* generateText: `if (out)` is false, the loop goes on
OutFalsy ==
    /\ pc' = "call"
    /\ idx' = idx + 1
    /\ UNCHANGED warned

\* generateText, loop head: the fallback record after the last provider,
\* otherwise `call` builds the payload and issues its first fetch
Call ==
    /\ pc = "call"
    /\ IF idx > Len(providers)
       THEN /\ result' = FallbackRecord(prompt, context)
            /\ pc' = "done"
            /\ UNCHANGED << attempt, attempts >>
       ELSE /\ attempt' = 1
            /\ attempts' = [attempts EXCEPT ![idx] = @ + 1]
            /\ pc' = "fetch"
            /\ UNCHANGED result
    /\ UNCHANGED << health, tool, payload, self, suspended, env, providers, prompt, context, idx, n429, nTrans, nPerm,
                    answeredBy, answered, extracted, warned, sleepMs, backoff >>

\* the fetch of attempt i settles with r; on an ok status `call` awaits
\* resp.json()
CallFetchCompletes(r) ==
    /\ pc = "fetch"
    /\ IF r.kind # "http"
       THEN \* the awaited fetch rejects: nothing in `call` catches it
            /\ nTrans' = [nTrans EXCEPT ![idx] = @ + 1]
            /\ CallThrew
            /\ UNCHANGED << n429, nPerm, sleepMs, backoff >>
       ELSE IF ResponseOk(r)
       THEN /\ pc' = "json"
            /\ UNCHANGED << idx, warned, n429, nTrans, nPerm, sleepMs, backoff >>
       ELSE IF r.status = 429
       THEN /\ n429' = [n429 EXCEPT ![idx] = @ + 1]
            /\ pc' = "sleep"
            /\ sleepMs' = retryDelay * attempt
            /\ backoff' = [backoff EXCEPT ![idx] = @ + retryDelay * attempt]
            /\ UNCHANGED << idx, warned, nTrans, nPerm >>
       ELSE \* throw new Error(`${provider.name} HTTP ${resp.status}`)
            /\ nPerm' = [nPerm EXCEPT ![idx] = @ + 1]
            /\ CallThrew
            /\ UNCHANGED << n429, nTrans, sleepMs, backoff >>
    /\ UNCHANGED << health, tool, payload, self, suspended, env, providers, prompt, context, attempt, attempts,
                    answeredBy, answered, extracted, result >>

\* resp.json() settles with data: a rejection and a throw of extract leave
\* `call`; otherwise `call` returns the extracted value and generateText
\* tests `if (out)`
CallJsonCompletes(data) ==
    /\ pc = "json"
    /\ IF ~data.parseable \/ extractThrows(providers[idx], data)
       THEN /\ nPerm' = [nPerm EXCEPT ![idx] = @ + 1]
            /\ CallThrew
            /\ UNCHANGED << answeredBy, answered, extracted, result >>
       ELSE LET out == extract(providers[idx], data)
            IN  /\ extracted' = out
                /\ answered' = TextField(providers[idx], data)
                /\ answeredBy' = idx
                /\ IF Truthy(out)
                   THEN /\ result' = RecordResult(out, providers[idx].name,
                                                   providers[idx].model)
                        /\ pc' = "done"
                        /\ UNCHANGED << idx, warned >>
                   ELSE OutFalsy /\ UNCHANGED result
                /\ UNCHANGED nPerm
    /\ UNCHANGED << health, tool, payload, self, suspended, env, providers, prompt, context, attempt, attempts,
                    n429, nTrans, sleepMs, backoff >>

\* the delay elapses: i++, then the next fetch, or the loop ends and `call`
\* returns undefined
DelayElapses ==
    /\ pc = "sleep"
    /\ attempt' = attempt + 1
    /\ IF attempt + 1 <= maxRetries
       THEN /\ attempts' = [attempts EXCEPT ![idx] = @ + 1]
            /\ pc' = "fetch"
            /\ UNCHANGED << idx, warned >>
       ELSE /\ OutFalsy
            /\ UNCHANGED attempts
    /\ sleepMs' = 0
    /\ UNCHANGED << health, tool, payload, self, suspended, env, providers, prompt, context, n429, nTrans, nPerm, answeredBy,
                    answered, extracted, backoff, result >>

NextShort ==
    \/ GenerateTextStartShort
    \/ Call
    \/ \E r \in Responses : CallFetchCompletes(r)
    \/ \E data \in Bodies : CallJsonCompletes(data)
    \/ DelayElapses

SpecShort == InitShort /\ [][NextShort]_vars

(***************************************************************************)
(* Two generateText calls in flight on the one `llm` instance.  A call     *)
(* runs until it awaits (the fetch, the body of the response, the backoff   *)
(* sleep) or returns; the event loop then runs the other call.  A promise  *)
(* that settles resumes its awaiter in a microtask, ahead of the next      *)
(* completion the event loop delivers, so the return of callProvider and   *)
(* the continuation of generateText are one step.  The arguments, the      *)
(* for-of position, the loop variable `attempt` and everything else a call *)
(* keeps are locals of its own activation; the instance fields (providers, *)
(* maxRetries, retryDelay, fallbackEnabled) are shared and only read.      *)
(***************************************************************************)
\* the arguments and locals of the running call
Locals ==
    [prompt |-> prompt, context |-> context, pc |-> pc, idx |-> idx,
     attempt |-> attempt, attempts |-> attempts, n429 |-> n429,
     nTrans |-> nTrans, nPerm |-> nPerm, answeredBy |-> answeredBy,
     answered |-> answered, extracted |-> extracted, warned |-> warned,
     sleepMs |-> sleepMs, backoff |-> backoff, result |-> result]

\* variant: the loop variable is a field of the instance
Resume_SharedAttempt(saved, current) == [saved EXCEPT !.attempt = current.attempt]

\* what a call finds when it is resumed: its own activation
Resume(saved, current) == saved

\* the outcomes of a fetch: transport error, rate limit, a 200
TwoResponses ==
    { r \in Responses :
        \/ r.kind = "neterr"
        \/ r.kind = "http" /\ r.status \in {200, 429} }

\* the outcomes of reading the body of a 200: the read fails, or the body is
\* a chat completion with text
TwoBodies ==
    { data \in Bodies :
        \/ ~data.parseable
        \/ data.shape = "chat" /\ data.content = Str(<< "a" >>) }

TwoEnvironments ==
    { e \in RunningEnvironments : e.openai # Undefined /\ e.hf = Undefined }

InitTwo ==
    /\ env \in TwoEnvironments
    /\ providers = initializeProviders(env.openai, env.anthropic, env.hf)
    /\ prompt = << "t", "h", "a", "n", "k", "s" >>
    /\ context = Context("flirty_reply", "")
    /\ pc = "start"
    /\ idx = 0
    /\ attempt = 0
    /\ attempts = [i \in 1..3 |-> 0]
    /\ n429 = [i \in 1..3 |-> 0]
    /\ nTrans = [i \in 1..3 |-> 0]
    /\ nPerm = [i \in 1..3 |-> 0]
    /\ answeredBy = 0
    /\ answered = Undefined
    /\ extracted = Undefined
    /\ warned = {}
    /\ sleepMs = 0
    /\ backoff = [i \in 1..3 |-> 0]
    /\ result = NoResult
    /\ self = 1
    /\ health = NoHealth
    /\ payload = NoPayload
    /\ tool = NoTool
    /\ suspended = Fresh(<< "H", "i" >>, Context("unset", ""))

\* the running call is at an await (or not entered, or has returned) and the
\* event loop runs the other call
Switch ==
    /\ pc \in {"start", "fetch", "json", "sleep", "done"}
    /\ suspended.pc \notin {"none", "done"}
    /\ self' = 3 - self
    /\ suspended' = Locals
    /\ LET mine == Resume(suspended, Locals)
       IN  /\ prompt' = mine.prompt
           /\ context' = mine.context
           /\ pc' = mine.pc
           /\ idx' = mine.idx
           /\ attempt' = mine.attempt
           /\ attempts' = mine.attempts
           /\ n429' = mine.n429
           /\ nTrans' = mine.nTrans
           /\ nPerm' = mine.nPerm
           /\ answeredBy' = mine.answeredBy
           /\ answered' = mine.answered
           /\ extracted' = mine.extracted
           /\ warned' = mine.warned
           /\ sleepMs' = mine.sleepMs
           /\ backoff' = mine.backoff
           /\ result' = mine.result
    /\ UNCHANGED << env, providers, health, tool, payload >>

NextTwo ==
    \/ GenerateTextStart
    \/ CallProvider
    \/ \E r \in TwoResponses : FetchCompletes(r)
    \/ \E data \in TwoBodies : JsonCompletes(data)
    \/ SleepElapses
    \/ Switch

SpecTwo == InitTwo /\ [][NextTwo]_vars

(***************************************************************************)
(* The tool handlers generate_srk_pickup_line and                          *)
(* generate_srk_flirty_reply: each builds its prompt from its arguments    *)
(* with a template literal, awaits llm.generateText, and formats the reply *)
(* from the result.  Text that is matched against keywords is kept as a    *)
(* sequence of characters.                                                 *)
(***************************************************************************)
\* the characters of the names used as arguments
CharsOf(s) ==
    CASE s = "Raj" -> << "R", "a", "j" >>
      [] s = "Simran" -> << "S", "i", "m", "r", "a", "n" >>
      [] s = "flirty" -> << "f", "l", "i", "r", "t", "y" >>
      [] s = "romantic" -> << "r", "o", "m", "a", "n", "t", "i", "c" >>
      [] s = "witty" -> << "w", "i", "t", "t", "y" >>
      [] s = "sweet" -> << "s", "w", "e", "e", "t" >>
      [] OTHER -> << >>

tonePrompts(tone) ==
    CASE tone = "flirty" ->
           << "G", "e", "n", "e", "r", "a", "t", "e", " ", "a", " ", "p", "l", "a",
              "y", "f", "u", "l", "l", "y", " ", "f", "l", "i", "r", "t", "y", " ",
              "a", "n", "d", " ", "c", "h", "a", "r", "m", "i", "n", "g", " ", "r",
              "e", "p", "l", "y" >>
      [] tone = "romantic" ->
           << "C", "r", "e", "a", "t", "e", " ", "a", " ", "d", "e", "e", "p", "l",
              "y", " ", "r", "o", "m", "a", "n", "t", "i", "c", " ", "a", "n", "d",
              " ", "h", "e", "a", "r", "t", "f", "e", "l", "t", " ", "r", "e", "s",
              "p", "o", "n", "s", "e" >>
      [] tone = "witty" ->
           << "W", "r", "i", "t", "e", " ", "a", " ", "c", "l", "e", "v", "e", "r",
              " ", "a", "n", "d", " ", "w", "i", "t", "t", "y", " ", "r", "e", "p",
              "l", "y", " ", "w", "i", "t", "h", " ", "h", "u", "m", "o", "r" >>
      [] tone = "sweet" ->
           << "M", "a", "k", "e", " ", "a", " ", "s", "w", "e", "e", "t", " ", "a",
              "n", "d", " ", "e", "n", "d", "e", "a", "r", "i", "n", "g", " ", "r",
              "e", "s", "p", "o", "n", "s", "e" >>

stylePrompts(style) ==
    CASE style = "romantic" ->
           << "G", "e", "n", "e", "r", "a", "t", "e", " ", "a", " ", "d", "e", "e",
              "p", "l", "y", " ", "r", "o", "m", "a", "n", "t", "i", "c", " ", "a",
              "n", "d", " ", "c", "h", "a", "r", "m", "i", "n", "g", " ", "p", "i",
              "c", "k", "u", "p", " ", "l", "i", "n", "e" >>
      [] style = "witty" ->
           << "C", "r", "e", "a", "t", "e", " ", "a", " ", "c", "l", "e", "v", "e",
              "r", " ", "a", "n", "d", " ", "w", "i", "t", "t", "y", " ", "p", "i",
              "c", "k", "u", "p", " ", "l", "i", "n", "e", " ", "w", "i", "t", "h",
              " ", "w", "o", "r", "d", "p", "l", "a", "y" >>
      [] style = "bollywood" ->
           << "M", "a", "k", "e", " ", "a", " ", "B", "o", "l", "l", "y", "w", "o",
              "o", "d", "-", "t", "h", "e", "m", "e", "d", " ", "p", "i", "c", "k",
              "u", "p", " ", "l", "i", "n", "e", " ", "w", "i", "t", "h", " ", "m",
              "o", "v", "i", "e", " ", "r", "e", "f", "e", "r", "e", "n", "c", "e",
              "s" >>
      [] style = "classic" ->
           << "W", "r", "i", "t", "e", " ", "a", " ", "t", "i", "m", "e", "l", "e",
              "s", "s", ",", " ", "c", "l", "a", "s", "s", "i", "c", " ", "r", "o",
              "m", "a", "n", "t", "i", "c", " ", "p", "i", "c", "k", "u", "p", " ",
              "l", "i", "n", "e" >>

FlirtyPromptToMessage ==
    << " ", "t", "o", " ", "t", "h", "i", "s", " ", "m", "e", "s", "s", "a",
       "g", "e", " ", "i", "n", " ", "S", "h", "a", "h", " ", "R", "u", "k",
       "h", " ", "K", "h", "a", "n", "'", "s", " ", "s", "i", "g", "n", "a",
       "t", "u", "r", "e", " ", "s", "t", "y", "l", "e", ".", "\n", "\n", "M",
       "e", "s", "s", "a", "g", "e", " ", "t", "o", " ", "r", "e", "p", "l",
       "y", " ", "t", "o", ":", " ", "\"" >>

FlirtyPromptContextLabel ==
    << "C", "o", "n", "v", "e", "r", "s", "a", "t", "i", "o", "n", " ", "c",
       "o", "n", "t", "e", "x", "t", ":", " " >>

FlirtyPromptNameLabel ==
    << "Y", "o", "u", "r", " ", "n", "a", "m", "e", ":", " " >>

FlirtyPromptShouldBe ==
    << "\n", "\n", "T", "h", "e", " ", "r", "e", "p", "l", "y", " ", "s", "h",
       "o", "u", "l", "d", " ", "b", "e", ":", "\n", "-", " " >>

FlirtyPromptRest ==
    << " ", "a", "n", "d", " ", "e", "n", "g", "a", "g", "i", "n", "g", " ",
       "l", "i", "k", "e", " ", "S", "R", "K", "'", "s", " ", "f", "a", "m",
       "o", "u", "s", " ", "d", "i", "a", "l", "o", "g", "u", "e", "s", "\n",
       "-", " ", "C", "h", "a", "r", "m", "i", "n", "g", " ", "w", "i", "t",
       "h", " ", "B", "o", "l", "l", "y", "w", "o", "o", "d", " ", "f", "l",
       "a", "i", "r", "\n", "-", " ", "C", "o", "n", "v", "e", "r", "s", "a",
       "t", "i", "o", "n", "-", "c", "o", "n", "t", "i", "n", "u", "i", "n",
       "g", " ", "a", "n", "d", " ", "a", "p", "p", "r", "o", "p", "r", "i",
       "a", "t", "e", "\n", "-", " ", "I", "n", "c", "l", "u", "d", "e", " ",
       "H", "i", "n", "d", "i", "/", "U", "r", "d", "u", " ", "p", "h", "r",
       "a", "s", "e", "s", " ", "w", "h", "e", "r", "e", " ", "s", "u", "i",
       "t", "a", "b", "l", "e", "\n", "-", " ", "S", "o", "u", "n", "d", " ",
       "l", "i", "k", "e", " ", "s", "o", "m", "e", "t", "h", "i", "n", "g",
       " ", "S", "R", "K", " ", "w", "o", "u", "l", "d", " ", "s", "a", "y",
       " ", "i", "n", " ", "h", "i", "s", " ", "r", "o", "m", "a", "n", "t",
       "i", "c", " ", "m", "o", "v", "i", "e", "s", "\n", "\n", "G", "e", "n",
       "e", "r", "a", "t", "e", " ", "o", "n", "l", "y", " ", "t", "h", "e",
       " ", "S", "R", "K", "-", "s", "t", "y", "l", "e", " ", "r", "e", "p",
       "l", "y", ":" >>

\* the prompt of generate_srk_flirty_reply
FlirtyPrompt(message, your_name, conversation, tone) ==
    tonePrompts(tone) \o FlirtyPromptToMessage \o message \o << "\"", "\n" >>
    \o (IF conversation # << >> THEN FlirtyPromptContextLabel \o conversation ELSE << >>)
    \o << "\n" >>
    \o (IF your_name # "" THEN FlirtyPromptNameLabel \o CharsOf(your_name) ELSE << >>)
    \o FlirtyPromptShouldBe \o CharsOf(tone) \o FlirtyPromptRest

PickupPromptContext ==
    << " ", "i", "n", " ", "S", "h", "a", "h", " ", "R", "u", "k", "h", " ",
       "K", "h", "a", "n", "'", "s", " ", "s", "i", "g", "n", "a", "t", "u",
       "r", "e", " ", "s", "t", "y", "l", "e", ".", "\n", "\n", "C", "o", "n",
       "t", "e", "x", "t", ":", " " >>

PickupPromptUser ==
    << "U", "s", "e", "r", ":", " " >>

PickupPromptTarget ==
    << ".", " ", "T", "a", "r", "g", "e", "t", ":", " " >>

PickupPromptShouldBe ==
    << "\n", "\n", "T", "h", "e", " ", "p", "i", "c", "k", "u", "p", " ", "l",
       "i", "n", "e", " ", "s", "h", "o", "u", "l", "d", " ", "b", "e", ":",
       "\n", "-", " ", "C", "h", "a", "r", "m", "i", "n", "g", " ", "a", "n",
       "d", " ", "r", "o", "m", "a", "n", "t", "i", "c", " ", "l", "i", "k",
       "e", " ", "S", "R", "K", "'", "s", " ", "f", "a", "m", "o", "u", "s",
       " ", "d", "i", "a", "l", "o", "g", "u", "e", "s", "\n", "-", " " >>

PickupPromptWitty ==
    << "C", "l", "e", "v", "e", "r", " ", "a", "n", "d", " ", "w", "i", "t",
       "t", "y" >>

PickupPromptSincere ==
    << "H", "e", "a", "r", "t", "f", "e", "l", "t", " ", "a", "n", "d", " ",
       "s", "i", "n", "c", "e", "r", "e" >>

PickupPromptRespectful ==
    << "\n", "-", " ", "A", "p", "p", "r", "o", "p", "r", "i", "a", "t", "e",
       " ", "a", "n", "d", " ", "r", "e", "s", "p", "e", "c", "t", "f", "u",
       "l", "\n", "-", " ", "I", "n", "c", "l", "u", "d", "e", " ", "B", "o",
       "l", "l", "y", "w", "o", "o", "d", " ", "f", "l", "a", "i", "r", " ",
       "a", "n", "d", " ", "H", "i", "n", "d", "i", "/", "U", "r", "d", "u",
       " ", "p", "h", "r", "a", "s", "e", "s", " ", "w", "h", "e", "r", "e",
       " ", "a", "p", "p", "r", "o", "p", "r", "i", "a", "t", "e", "\n" >>

PickupPromptPersonalized ==
    << "-", " ", "P", "e", "r", "s", "o", "n", "a", "l", "i", "z", "e", "d",
       " ", "f", "o", "r", " ", "t", "h", "e", " ", "t", "a", "r", "g", "e",
       "t", " ", "p", "e", "r", "s", "o", "n" >>

PickupPromptOnly ==
    << "\n", "\n", "G", "e", "n", "e", "r", "a", "t", "e", " ", "o", "n", "l",
       "y", " ", "t", "h", "e", " ", "p", "i", "c", "k", "u", "p", " ", "l",
       "i", "n", "e", ":" >>

\* the prompt of generate_srk_pickup_line
PickupPrompt(user_info, target_info, style) ==
    stylePrompts(style) \o PickupPromptContext
    \o PickupPromptUser \o CharsOf(user_info)
    \o (IF target_info # "" THEN PickupPromptTarget \o CharsOf(target_info) ELSE << >>)
    \o PickupPromptShouldBe
    \o (IF style = "witty" THEN PickupPromptWitty ELSE PickupPromptSincere)
    \o PickupPromptRespectful
    \o (IF target_info # "" THEN PickupPromptPersonalized ELSE << >>)
    \o PickupPromptOnly

\* the keywords the texts are searched for
CharsOfKeyword(w) ==
    CASE w = "hello" -> << "h", "e", "l", "l", "o" >>
      [] w = "hi" -> << "h", "i" >>
      [] w = "hey" -> << "h", "e", "y" >>
      [] w = "morning" -> << "m", "o", "r", "n", "i", "n", "g" >>
      [] w = "evening" -> << "e", "v", "e", "n", "i", "n", "g" >>
      [] w = "thank" -> << "t", "h", "a", "n", "k" >>
      [] w = "sorry" -> << "s", "o", "r", "r", "y" >>
      [] w = "apologize" -> << "a", "p", "o", "l", "o", "g", "i", "z", "e" >>

NoReply == [note |-> "none", text |-> Undefined, provider |-> "", model |-> ""]

\* the incoming messages: a thank-you, a greeting, neither
Messages ==
    { << "t", "h", "a", "n", "k", " ", "y", "o", "u" >>,
      << "h", "e", "l", "l", "o" >>,
      << "o", "k" >> }

FlirtyRequests ==
    { [name |-> "generate_srk_flirty_reply", message |-> m, your_name |-> n,
       conversation |-> c, tone |-> t, user_info |-> "", target_info |-> "",
       style |-> "", reply |-> NoReply] :
          m \in Messages, n \in {"", "Raj"}, c \in {<< >>, << "o", "k" >>},
          t \in {"flirty", "romantic", "witty", "sweet"} }

PickupRequests ==
    { [name |-> "generate_srk_pickup_line", message |-> << >>, your_name |-> "",
       conversation |-> << >>, tone |-> "", user_info |-> u, target_info |-> g,
       style |-> st, reply |-> NoReply] :
          u \in {"", "Raj"}, g \in {"", "Simran"},
          st \in {"romantic", "witty", "bollywood", "classic"} }

\* the environments of the served instance: no provider, or openai
ToolEnvironments ==
    { e \in RunningEnvironments : e.anthropic = Undefined /\ e.hf = Undefined }

InitTools ==
    /\ env \in ToolEnvironments
    /\ providers = initializeProviders(env.openai, env.anthropic, env.hf)
    /\ tool \in FlirtyRequests \cup PickupRequests
    /\ prompt = << >>
    /\ context = Context("unset", "")
    /\ pc = "tool"
    /\ idx = 0
    /\ attempt = 0
    /\ attempts = [i \in 1..3 |-> 0]
    /\ n429 = [i \in 1..3 |-> 0]
    /\ nTrans = [i \in 1..3 |-> 0]
    /\ nPerm = [i \in 1..3 |-> 0]
    /\ answeredBy = 0
    /\ answered = Undefined
    /\ extracted = Undefined
    /\ warned = {}
    /\ sleepMs = 0
    /\ backoff = [i \in 1..3 |-> 0]
    /\ result = NoResult
    /\ self = 1
    /\ health = NoHealth
    /\ payload = NoPayload
    /\ suspended = NoCall

\* the handler builds the prompt and the context and enters generateText
ToolCalled ==
    /\ pc = "tool"
    /\ IF tool.name = "generate_srk_flirty_reply"
       THEN /\ prompt' = FlirtyPrompt(tool.message, tool.your_name, tool.conversation,
                                      tool.tone)
            /\ context' = [type |-> "flirty_reply", userInfo |-> "",
                           name |-> tool.your_name]
       ELSE /\ prompt' = PickupPrompt(tool.user_info, tool.target_info, tool.style)
            /\ context' = [type |-> "pickup_line", userInfo |-> tool.user_info,
                           name |-> ""]
    /\ pc' = "start"
    /\ UNCHANGED << tool, payload, self, suspended, env, providers, health, idx, attempt,
                    attempts, n429, nTrans, nPerm, answeredBy, answered, extracted,
                    warned, sleepMs, backoff, result >>

\* `${result.text}` in a template literal
TemplateText(v) == IF v.ty = "undefined" THEN Str(<< "undefined" >>) ELSE v

\* the try block: the reply formatted from the generation result
ReplyFromResult(r) ==
    [note |-> IF r.provider # "fallback" THEN "generated" ELSE "curated",
     text |-> TemplateText(r.text),
     provider |-> r.provider,
     model |-> r.model]

\* the catch block of generate_srk_pickup_line: pick(fallbackLines)
EmergencyPickupLines(user_info) ==
    { << "Just like in my movies, ", user_info,
         ", you've made my heart skip a beat. Kuch Kuch Hota Hai when I see you!" >>,
      << "If I were to write a love story, ", user_info,
         ", you would be both the beginning and the happy ending." >>,
      << "Main hoon na, ", user_info,
         "? Because like SRK, I promise to always be there for you." >> }

\* the catch block of generate_srk_flirty_reply: the regular expressions
EmergencyFlirtyReply(message, your_name) ==
    LET lowercase == ToLowerCase(message)
        name == Or(your_name, "beautiful")
        Has(w) == Includes(lowercase, CharsOfKeyword(w))
    IN  IF Has("hello") \/ Has("hi") \/ Has("hey") \/ Has("morning") \/ Has("evening")
        THEN << "Namaste ", name,
                "! Like in my movies, you've made my heart do a little dance" >>
        ELSE IF Has("thank")
        THEN << "Anything for you, ", name,
                "! Like I always say in my films - main hoon na!" >>
        ELSE IF Has("sorry") \/ Has("apologize")
        THEN << "Don't worry, ", name,
                "! True love means never having to say sorry" >>
        ELSE << "You always know just what to say to make me smile, ", name,
                "! It's like you have the perfect dialogue for every scene" >>

EmergencyReplies ==
    { [note |-> "emergency", text |-> Str(t), provider |-> "", model |-> ""] :
        t \in IF tool.name = "generate_srk_pickup_line"
              THEN EmergencyPickupLines(tool.user_info)
              ELSE { EmergencyFlirtyReply(tool.message, tool.your_name) } }

\* generateText returned or threw: the handler replies
ToolReplies ==
    /\ pc \in {"done", "threw"}
    /\ tool.name # "none"
    /\ tool.reply = NoReply
    /\ IF pc = "threw"
       THEN \E r \in EmergencyReplies : tool' = [tool EXCEPT !.reply = r]
       ELSE tool' = [tool EXCEPT !.reply = ReplyFromResult(result)]
    /\ pc' = "replied"
    /\ UNCHANGED << payload, self, suspended, env, providers, health, prompt, context, idx,
                    attempt, attempts, n429, nTrans, nPerm, answeredBy, answered,
                    extracted, warned, sleepMs, backoff, result >>

NextTools ==
    \/ ToolCalled
    \/ GenerateTextStart
    \/ CallProvider
    \/ \E r \in Responses : FetchCompletes(r)
    \/ \E data \in Bodies : JsonCompletes(data)
    \/ SleepElapses
    \/ ToolReplies

SpecTools == InitTools /\ [][NextTools]_vars

(***************************************************************************)
(* Vocabulary of the properties.                                           *)
(***************************************************************************)
\* a string of at least one character, whitespace or not
NonEmptyText(v) == v.ty = "string" /\ v.s # << >>

\* a string with at least one character that is not whitespace
NonBlankText(v) == v.ty = "string" /\ \E i \in 1..Len(v.s) : v.s[i] # " "

\* every chunk of a returned text has at least one character
NonEmptyChunks(v) == NonEmptyText(v) /\ \A i \in 1..Len(v.s) : v.s[i] # ""

TotalAttempts == attempts[1] + attempts[2] + attempts[3]

FailedAttempts(p) == n429[p] + nTrans[p] + nPerm[p]

IsFallbackRecord(r) ==
    /\ r.shape = "record"
    /\ r.provider = "fallback"
    /\ r.model = "local"
    /\ NonEmptyChunks(r.text)

(***************************************************************************)
(* C1: generateText never propagates an error to its caller: whatever the  *)
(* registry and whatever the outcome of each attempt, the call never       *)
(* completes by throwing.                                                  *)
(***************************************************************************)
C1_NeverThrows == pc # "threw"

\* a provider's error reached the catch block of generateText and the call
\* still returned
C1_Witness == pc = "done" /\ warned # {} /\ result.shape = "record"

(***************************************************************************)
(* C2: every value generateText returns is a result record whose text      *)
(* field is a non-empty string, the empty registry included.               *)
(***************************************************************************)
C2_ReturnsRecordWithText ==
    pc = "done" => result.shape = "record" /\ NonEmptyText(result.text)

(***************************************************************************)
(* C3: with an empty registry generateText returns a record with provider  *)
(* "fallback", model "local" and a non-empty text, and makes no remote     *)
(* call.                                                                   *)
(***************************************************************************)
C3_EmptyRegistryFallbackRecord ==
    (pc = "done" /\ Len(providers) = 0) =>
        /\ IsFallbackRecord(result)
        /\ TotalAttempts = 0

(***************************************************************************)
(* C4: the returned provider is "fallback" exactly when no remote attempt  *)
(* of the call produced a non-empty extracted text; when one did, provider *)
(* and model are those of the provider that produced it.                   *)
(***************************************************************************)
C4_FallbackIffNothingExtracted ==
    /\ pc = "done" =>
          (result.provider = "fallback" <=> ~(answeredBy # 0 /\ NonEmptyText(extracted)))
    /\ (answeredBy # 0 /\ NonEmptyText(extracted)) =>
          (pc = "done" => /\ result.provider = providers[answeredBy].name
                          /\ result.model = providers[answeredBy].model)

(***************************************************************************)
(* C5: providers are attempted strictly in ascending-priority registry     *)
(* order: the registry is sorted by priority, every fetch goes to the      *)
(* provider at the loop position, no provider after it has been attempted  *)
(* yet, every provider before it has been attempted and has not produced   *)
(* an accepted text, and the loop position never moves back.  The target   *)
(* of each attempt is thus fixed by the registry and the outcomes so far.  *)
(***************************************************************************)
SortedByPriority ==
    \A i \in Positions, j \in Positions :
        i < j => providers[i].priority < providers[j].priority

AttemptInOrder ==
    \A q \in Positions :
        attempts'[q] > attempts[q] =>
            /\ q = idx'
            /\ pc' = "fetch"
            /\ result = NoResult
            /\ ~(answeredBy # 0 /\ Usable(extracted))
            /\ \A r \in Positions : r > q => attempts[r] = 0
            /\ \A o \in Positions : o < q => attempts[o] >= 1

C5_AscendingPriorityOrder ==
    /\ []SortedByPriority
    /\ [][AttemptInOrder /\ idx' >= idx /\ providers' = providers]_vars

\* the third provider is being attempted after the first two have failed
C5_Witness ==
    /\ Len(providers) = 3
    /\ pc = "fetch"
    /\ idx = 3
    /\ attempts[1] >= 1
    /\ attempts[2] >= 1

(***************************************************************************)
(* C6 as stated: once a provider yields a non-empty extracted text the     *)
(* call returns it under that provider's name and no further attempt is    *)
(* made; when the first provider does so on its first attempt, exactly one *)
(* attempt is made in total.                                               *)
(***************************************************************************)
C6_ShortCircuitOnNonEmpty ==
    (answeredBy # 0 /\ NonEmptyText(extracted)) =>
        /\ pc = "done"
        /\ result.provider = providers[answeredBy].name
        /\ \A q \in Positions : q > answeredBy => attempts[q] = 0
        /\ (answeredBy = 1 /\ attempts[1] = 1) => TotalAttempts = 1

(***************************************************************************)
(* C6 amended: the same, for an extracted text that has at least one       *)
(* character that is not whitespace.                                       *)
(***************************************************************************)
C6_ShortCircuitOnNonBlank ==
    (answeredBy # 0 /\ NonBlankText(extracted)) =>
        /\ pc = "done"
        /\ result.provider = providers[answeredBy].name
        /\ result.text = extracted
        /\ \A q \in Positions : q > answeredBy => attempts[q] = 0
        /\ (answeredBy = 1 /\ attempts[1] = 1) => TotalAttempts = 1

\* the first of several providers answered with a text on its first attempt
C6_Witness ==
    /\ Len(providers) >= 2
    /\ answeredBy = 1
    /\ attempts[1] = 1
    /\ NonBlankText(extracted)
    /\ pc = "done"

(***************************************************************************)
(* C7: a provider that answers 429 on k < maxRetries consecutive attempts  *)
(* and then 2xx with a non-empty text has its text returned under its      *)
(* name, after exactly k+1 attempts against it.  The text is taken to have *)
(* a character that is not whitespace, the reading most favourable to the  *)
(* statement.                                                              *)
(***************************************************************************)
C7_RateLimitedThenSuccess ==
    \A p \in Positions :
        ( /\ answeredBy = p
          /\ n429[p] < maxRetries
          /\ nTrans[p] = 0
          /\ nPerm[p] = 0
          /\ NonBlankText(answered) ) =>
            /\ pc = "done"
            /\ result.shape = "record"
            /\ result.provider = providers[p].name
            /\ result.text = answered
            /\ attempts[p] = n429[p] + 1

(***************************************************************************)
(* C8: a provider that exhausts its attempts (all of them 429, or all of   *)
(* them transport errors or timeouts) is followed by the next provider in  *)
(* registry order; when every provider of the registry has failed, the     *)
(* fallback text is returned with provider "fallback" and model "local".   *)
(***************************************************************************)
Exhausted(p) ==
    /\ attempts[p] = maxRetries
    /\ n429[p] = maxRetries \/ nTrans[p] = maxRetries

\* the step by which callProvider ends for an exhausted provider
LeavesExhausted ==
    /\ pc \in {"fetch", "sleep"}
    /\ pc' \notin {"fetch", "sleep"}
    /\ attempts[idx] = maxRetries
    /\ n429'[idx] = maxRetries \/ nTrans'[idx] = maxRetries

MovesToNext ==
    /\ LeavesExhausted => pc' = "call" /\ idx' = idx + 1 /\ result' = NoResult
    /\ (pc = "call" /\ idx <= Len(providers)) =>
           pc' = "fetch" /\ idx' = idx /\ attempts'[idx] = 1
    /\ (pc = "call" /\ idx > Len(providers)) =>
           pc' = "done" /\ IsFallbackRecord(result')

AllProvidersFailed ==
    /\ Len(providers) >= 1
    /\ \A p \in Positions : attempts[p] >= 1
    /\ ~(answeredBy # 0 /\ Usable(extracted))

C8_ExhaustedThenNextThenFallback ==
    /\ [][MovesToNext]_vars
    /\ []((pc = "done" /\ AllProvidersFailed) => IsFallbackRecord(result))

\* one provider used up its attempts on 429 and another on timeouts, and
\* the call returned the fallback
C8_Witness ==
    /\ Len(providers) >= 2
    /\ \A p \in Positions : Exhausted(p)
    /\ \E p \in Positions : n429[p] = maxRetries
    /\ \E p \in Positions : nTrans[p] = maxRetries
    /\ pc = "done"
    /\ IsFallbackRecord(result)

(***************************************************************************)
(* C9: an attempt that gets a non-2xx status other than 429, or a 2xx with *)
(* a body that cannot be parsed, is not retried: exactly one attempt is    *)
(* made against that provider, and the error does not reach the caller.    *)
(***************************************************************************)
C9_PermanentErrorNotRetried ==
    /\ pc # "threw"
    /\ \A p \in Positions : nPerm[p] >= 1 => attempts[p] = 1

(***************************************************************************)
(* C10: a 2xx whose extracted text is empty is a provider failure without  *)
(* retry: no further attempt is made against that provider, and with one   *)
(* provider that answers an empty content on its first attempt the call    *)
(* makes exactly one attempt and returns the fallback.                     *)
(***************************************************************************)
C10_EmptyTextFailsWithoutRetry ==
    /\ (answeredBy # 0 /\ ~Truthy(answered)) =>
          /\ attempts[answeredBy] = FailedAttempts(answeredBy) + 1
          /\ pc \in {"call", "done"} \/ idx > answeredBy
    /\ (Len(providers) = 1 /\ answeredBy = 1 /\ FailedAttempts(1) = 0 /\ ~Truthy(answered)) =>
          /\ attempts[1] = 1
          /\ idx = 2 \/ pc = "done"
          /\ pc = "done" => IsFallbackRecord(result)

\* the only provider answered 2xx with an empty content and the call
\* returned the fallback after that one attempt
C10_Witness ==
    /\ providers = << OpenAI >>
    /\ answeredBy = 1
    /\ answered = Str(<< >>)
    /\ extracted = Str(<< >>)
    /\ attempts[1] = 1
    /\ pc = "done"
    /\ IsFallbackRecord(result)

(***************************************************************************)
(* C11: for every combination of present and absent credentials (the empty *)
(* string counts as absent) the registry holds exactly one descriptor for  *)
(* each present credential and none for an absent one, in ascending        *)
(* priority order openai = 1, anthropic = 2, huggingface = 3; with no      *)
(* credential it is the empty sequence.                                    *)
(***************************************************************************)
Present(c) == c.ty = "string" /\ Len(c.s) > 0

DescriptorsNamed(n) == { i \in Positions : providers[i].name = n }

CountFor(c, n) == Cardinality(DescriptorsNamed(n)) = (IF Present(c) THEN 1 ELSE 0)

ExpectedPriority(n) ==
    CASE n = "openai" -> 1
      [] n = "anthropic" -> 2
      [] n = "huggingface" -> 3

C11_RegistryMatchesCredentials ==
    pc = "constructed" =>
        /\ CountFor(env.openai, "openai")
        /\ CountFor(env.anthropic, "anthropic")
        /\ CountFor(env.hf, "huggingface")
        /\ \A i \in Positions :
              /\ providers[i].name \in {"openai", "anthropic", "huggingface"}
              /\ providers[i].priority = ExpectedPriority(providers[i].name)
        /\ \A i \in Positions, j \in Positions :
              i < j => providers[i].priority < providers[j].priority
        /\ (~Present(env.openai) /\ ~Present(env.anthropic) /\ ~Present(env.hf))
              => providers = << >>

\* an empty OPENAI_API_KEY next to two set credentials
C11_Witness ==
    /\ pc = "constructed"
    /\ env.openai = Str(<< >>)
    /\ Present(env.anthropic)
    /\ Present(env.hf)
    /\ Len(providers) = 2
    /\ providers[1].name = "anthropic"
    /\ providers[2].name = "huggingface"

(***************************************************************************)
(* C12: when the anthropic provider answers 2xx with a body whose first    *)
(* content block carries a non-empty text, generateText returns that text  *)
(* with provider "anthropic" and the model of the anthropic descriptor;    *)
(* when the field is absent the extracted text is the empty string.        *)
(***************************************************************************)
C12_AnthropicTextReturned ==
    \A p \in Positions :
        (answeredBy = p /\ providers[p].name = "anthropic") =>
            /\ NonBlankText(answered) =>
                  /\ extracted = answered
                  /\ pc = "done"
                  /\ result.provider = "anthropic"
                  /\ result.model = Anthropic.model
                  /\ result.text = answered
            /\ answered = Str(<< >>) => extracted = Str(<< >>)

(***************************************************************************)
(* C13: when the huggingface provider answers 2xx with an array body whose *)
(* first element carries a non-empty generated text, extractResponse       *)
(* returns that text trimmed, and generateText returns it with provider    *)
(* "huggingface"; an absent or malformed body yields the empty string.     *)
(***************************************************************************)
C13_HuggingFaceTextReturned ==
    \A p \in Positions :
        (answeredBy = p /\ providers[p].name = "huggingface") =>
            /\ NonBlankText(answered) =>
                  /\ extracted = Str(Trim(answered.s))
                  /\ pc = "done"
                  /\ result.provider = "huggingface"
                  /\ result.text = extracted
            /\ answered = Str(<< >>) => extracted = Str(<< >>)

(***************************************************************************)
(* C14: for context.type "pickup_line" getFallbackResponse returns a       *)
(* non-empty string that is one of the three pickup-line templates, its    *)
(* placeholder filled from context.userInfo or with the template's generic *)
(* word when userInfo is absent; for an unset or unrecognized type it      *)
(* returns the one fixed generic string; it never throws.                  *)
(***************************************************************************)
ExpectedPickupLines(userInfo) ==
    { << "Just like Shah Rukh Khan in his movies, ",
         IF userInfo = "" THEN "you" ELSE userInfo,
         " have made my heart skip a beat!" >>,
      << "If I were to write a love story, ",
         IF userInfo = "" THEN "beautiful" ELSE userInfo,
         ", you would be both the beginning and the happy ending." >>,
      << "Main hoon na, ",
         IF userInfo = "" THEN "gorgeous" ELSE userInfo,
         "? Because like SRK, I promise to always be there for you." >> }

C14_FallbackDispatch ==
    /\ pc # "threw"
    /\ pc = "done" =>
          /\ result.shape = "string"
          /\ result.str # << >>
          /\ \A i \in 1..Len(result.str) : result.str[i] # ""
          /\ context.type = "pickup_line" =>
                result.str \in ExpectedPickupLines(context.userInfo)
          /\ context.type \in {"unset", "other"} =>
                result.str = << "I'm here to help! Let me know what you'd like to know." >>

\* the third pickup line with its generic word, and the generic string for
\* an unrecognized type, are both among the returned values
C14_Witness ==
    /\ pc = "done"
    /\ \/ /\ context.type = "pickup_line"
          /\ context.userInfo = ""
          /\ result.str[1] = "Main hoon na, "
          /\ result.str[2] = "gorgeous"
       \/ /\ context.type = "other"
          /\ context.userInfo = "Raj"
          /\ Len(result.str) = 1

(***************************************************************************)
(* C15: in every reachable state of a generateText call, the number of     *)
(* remote attempts made against any single provider is at most maxRetries  *)
(* (3), whatever mix of 429, other error statuses, transport errors and    *)
(* timeouts the provider answers with.                                     *)
(***************************************************************************)
C15_AttemptBudget ==
    \A p \in 1..3 : attempts[p] <= maxRetries /\ FailedAttempts(p) <= attempts[p]

\* the budget is used up by one 429, one transport error and one error status
C15_Witness ==
    \E p \in Positions :
        /\ attempts[p] = maxRetries
        /\ n429[p] = 1
        /\ nTrans[p] = 1
        /\ nPerm[p] = 1

\* the step in which the current attempt ends in a transport error or timeout
TransportFailure == pc = "fetch" /\ nTrans'[idx] = nTrans[idx] + 1

\* the step in which the current attempt is answered with 429
RateLimited == pc = "fetch" /\ n429'[idx] = n429[idx] + 1

\* a backoff sleep that is followed by one more attempt against the same
\* provider
RetriesSameProvider ==
    /\ pc' = "fetch"
    /\ idx' = idx
    /\ attempt' = attempt + 1
    /\ attempts' = [attempts EXCEPT ![idx] = @ + 1]

(***************************************************************************)
(* C16: an attempt that ends in a transport error or the per-attempt       *)
(* timeout counts as one attempt; before the last attempt it is followed   *)
(* by a backoff of retryDelay * attemptNumber and a retry against the same *)
(* provider; only when it was attempt number maxRetries is the provider    *)
(* declared failed and control passed to the next provider.                *)
(***************************************************************************)
C16_TransportFailureRetried ==
    [][ /\ TransportFailure =>
            /\ attempts[idx] = attempt
            /\ attempts' = attempts
            /\ IF attempt < maxRetries
               THEN /\ pc' = "sleep"
                    /\ sleepMs' = retryDelay * attempt
                    /\ idx' = idx
                    /\ warned' = warned
               ELSE /\ attempt = maxRetries
                    /\ warned' = warned \cup {idx}
                    /\ pc' = "call"
                    /\ idx' = idx + 1
        /\ (pc = "sleep" /\ nTrans[idx] >= 1 /\ attempt < maxRetries) => RetriesSameProvider
      ]_vars

\* three transport errors in a row: two backoffs, then the provider is given up
C16_Witness ==
    /\ nTrans[1] = maxRetries
    /\ attempts[1] = maxRetries
    /\ backoff[1] = 3000
    /\ 1 \in warned
    /\ idx = 2

(***************************************************************************)
(* C18: when attempt number i against a provider is answered with HTTP 429 *)
(* callProvider sleeps exactly retryDelay * i = 1000 * i milliseconds      *)
(* before the next attempt against that provider, and the 429 has used one *)
(* attempt of the budget.                                                  *)
(***************************************************************************)
C18_LinearBackoff ==
    [][ /\ RateLimited =>
            /\ attempts[idx] = attempt
            /\ attempts' = attempts
            /\ pc' = "sleep"
            /\ sleepMs' = 1000 * attempt
            /\ backoff'[idx] = backoff[idx] + 1000 * attempt
            /\ idx' = idx
        /\ (pc = "sleep" /\ n429[idx] >= 1 /\ attempt < maxRetries) =>
            /\ sleepMs = 1000 * attempt
            /\ RetriesSameProvider
      ]_vars

\* the second attempt was rate limited too: the sleep is 2000 ms
C18_Witness ==
    /\ pc = "sleep"
    /\ attempt = 2
    /\ n429[idx] = 2
    /\ sleepMs = 2000
    /\ backoff[idx] = 3000

(***************************************************************************)
(* C19: when every fetch completes and every backoff sleep elapses, every  *)
(* generateText call eventually returns, and it makes at most              *)
(* |providers| * maxRetries remote attempts in total.                      *)
(***************************************************************************)
C19_Termination ==
    /\ <>(pc = "done")
    /\ [](TotalAttempts <= Len(providers) * maxRetries)

\* a call that returned after using the whole budget of three providers
C19_Witness ==
    /\ pc = "done"
    /\ Len(providers) = 3
    /\ TotalAttempts = 3 * maxRetries

(***************************************************************************)
(* C17: in the second copy of the class (`call`), a transport error or     *)
(* timeout thrown by fetch on attempt i < maxRetries is followed by the    *)
(* backoff of a 429 (retryDelay * i) and a retry against the same          *)
(* provider; the provider is given up for a transport error only on        *)
(* attempt maxRetries.                                                     *)
(***************************************************************************)
C17_CallRetriesTransportFailure ==
    [][ TransportFailure =>
            IF attempt < maxRetries
            THEN /\ pc' = "sleep"
                 /\ sleepMs' = retryDelay * attempt
                 /\ idx' = idx
                 /\ idx \notin warned'
            ELSE /\ idx \in warned'
                 /\ idx' = idx + 1
      ]_vars

\* the arguments and locals of call k
LocalsOf(k) == IF self = k THEN Locals ELSE suspended

\* the fetches call l has issued to each provider are the outcomes l itself
\* has seen from it, plus the exchange it is waiting for; they stay within the
\* budget; l has tried every provider before its position and none after it
OwnAttemptsOnly(l) ==
    \A p \in 1..3 :
        /\ l.attempts[p] <= maxRetries
        /\ l.attempts[p] = l.n429[p] + l.nTrans[p] + l.nPerm[p]
                             + (IF l.answeredBy = p THEN 1 ELSE 0)
                             + (IF l.pc \in {"fetch", "json"} /\ l.idx = p THEN 1 ELSE 0)
        /\ (p \in Positions /\ p < l.idx) => l.attempts[p] >= 1
        /\ p > l.idx => l.attempts[p] = 0

\* the value call l returned is the one its own outcomes give: the text of
\* the 200 it got from openai, otherwise the fallback for its own arguments
OwnResult(l) ==
    l.pc = "done" =>
        IF l.answeredBy = 1
        THEN l.result = RecordResult(Str(<< "a" >>), "openai", OpenAI.model)
        ELSE l.result \in AllFailedResults(l.prompt, l.context)

(***************************************************************************)
(* C20: two generateText calls on the shared instance, interleaved at      *)
(* their await points, are independent: a step of one call changes nothing *)
(* of the other, a resumed call finds its attempt counters, provider       *)
(* position and result as it left them, the shared registry is never       *)
(* written, and so each call's attempts are exactly the outcomes it saw    *)
(* itself and its result the one those outcomes give when it runs alone.   *)
(***************************************************************************)
C20_ConcurrentCallsIndependent ==
    /\ [](\A k \in {1, 2} : OwnAttemptsOnly(LocalsOf(k)) /\ OwnResult(LocalsOf(k)))
    /\ [][ /\ providers' = providers
           /\ self' = self => suspended' = suspended
           /\ self' # self => suspended' = Locals /\ Locals' = suspended
         ]_vars

\* both calls are in flight at once: one sleeps after its second 429 while
\* the other, already at the second provider, waits for a fetch
C20_Witness ==
    /\ pc = "sleep"
    /\ attempt = 2
    /\ n429[1] = 2
    /\ suspended.pc = "fetch"
    /\ suspended.idx = 2
    /\ suspended.nTrans[1] = maxRetries

(***************************************************************************)
(* C21: the registry is immutable after construction: no step of           *)
(* generateText, callProvider or checkProviderHealth, on any outcome path, *)
(* changes the providers sequence (membership, order, descriptor fields)   *)
(* or the credentials it was built from; it stays the registry the         *)
(* constructor built.  (maxRetries, retryDelay and fallbackEnabled are     *)
(* assigned by the constructor only.)                                      *)
(***************************************************************************)
C21_RegistryImmutable ==
    /\ [][providers' = providers /\ env' = env]_vars
    /\ [](providers = initializeProviders(env.openai, env.anthropic, env.hf))

\* a call that went through all three providers, and a health check that
\* probed all three
C21_Witness ==
    /\ Len(providers) = 3
    /\ \/ pc = "done" /\ TotalAttempts = 3 * maxRetries
       \/ pc = "hdone" /\ TotalAttempts = 3 * maxRetries

\* the loop of generateText stands before a descriptor with an unrecognized
\* name
AtUnknownProvider ==
    /\ pc = "call"
    /\ idx \in Positions
    /\ providers[idx].name \notin {"openai", "anthropic", "huggingface"}

(***************************************************************************)
(* C22: when a descriptor with an unrecognized provider name reaches       *)
(* payload construction, no remote attempt is made for it (zero attempts,  *)
(* no retry, no backoff), a diagnostic naming it is emitted, the call does *)
(* not throw, and the chain goes on with the next provider in order.       *)
(***************************************************************************)
C22_UnknownProviderSkipped ==
    /\ [][ AtUnknownProvider =>
             /\ attempts' = attempts
             /\ backoff' = backoff
             /\ warned' = warned \cup {idx}
             /\ pc' = "call"
             /\ idx' = idx + 1
         ]_vars
    /\ [](/\ pc # "threw"
          /\ \A p \in Positions :
                providers[p].name \notin {"openai", "anthropic", "huggingface"}
                    => attempts[p] = 0 /\ backoff[p] = 0)

\* the unknown descriptor came first, was reported, and the provider after
\* it was tried
C22_Witness ==
    /\ Len(providers) >= 2
    /\ providers[1].name = "cohere"
    /\ 1 \in warned
    /\ attempts[1] = 0
    /\ attempts[2] >= 1

(***************************************************************************)
(* C23: whenever generateText abandons a provider (its retries were        *)
(* exhausted, all-429 included, or it returned empty text) the             *)
(* console.warn naming that provider has been emitted by the time the loop *)
(* stands at the next provider or returns the fallback.                    *)
(***************************************************************************)
C23_FailureRecordedBeforeMovingOn ==
    [][ (pc \in {"call", "fetch", "json", "sleep"} /\ idx \in Positions /\ idx' = idx + 1)
            => idx \in warned' ]_vars

\* the text the local fallback gave to the call that has returned
FallbackText == IF result.shape = "string" THEN result.str ELSE result.text.s

\* the call has returned the local fallback's text
FellBack ==
    /\ pc \in {"done", "replied"}
    /\ result.shape = "string" \/ result.provider = "fallback"

(***************************************************************************)
(* C24: when the generate_srk_flirty_reply tool falls back for an incoming *)
(* message that is a thank-you containing no greeting word, the text is    *)
(* the gratitude template (the keyword dispatch of getFallbackResponse for *)
(* context.type "flirty_reply": greeting, else gratitude, else generic).   *)
(***************************************************************************)
C24_ThankYouGetsGratitude ==
    LET lowercase == ToLowerCase(tool.message)
    IN  ( /\ FellBack
          /\ tool.name = "generate_srk_flirty_reply"
          /\ Includes(lowercase, CharsOfKeyword("thank"))
          /\ ~Includes(lowercase, CharsOfKeyword("hello"))
          /\ ~Includes(lowercase, CharsOfKeyword("hi")) )
        => FallbackText = GratitudeTemplate(context)

(***************************************************************************)
(* C25: for every provider kind formatPayload puts the caller's            *)
(* context.maxTokens (a positive integer) and context.temperature (any     *)
(* value of [0, 1], 0 included) unchanged into the body's max-token and    *)
(* temperature fields, and uses the defaults 150 and 0.8 only when the     *)
(* context field is absent.                                                *)
(***************************************************************************)
C25_ParametersPassThrough ==
    pc = "formatted" =>
        /\ payload.max_tokens =
              IF context.maxTokens = Undefined THEN Num(150) ELSE context.maxTokens
        /\ payload.temperature =
              IF context.temperature = Undefined THEN Num(8) ELSE context.temperature

(***************************************************************************)
(* C26: every backoff sleep of callProvider is followed by another attempt *)
(* against the same provider: there is no sleep after a provider's final   *)
(* attempt, on the 429 path or on the transport-error path, so the backoff *)
(* spent on one provider is at most retryDelay * (1 + 2) = 3000 ms.        *)
(***************************************************************************)
C26_SleepOnlyBeforeRetry ==
    /\ [][ pc = "sleep" => (pc' = "fetch" /\ idx' = idx /\ attempt' = attempt + 1) ]_vars
    /\ [](\A p \in 1..3 : backoff[p] <= retryDelay * (1 + 2))

(***************************************************************************)
(* C27: checkProviderHealth probes every configured provider whatever the  *)
(* earlier probes gave, returns exactly one status per configured          *)
(* provider, reports a provider "healthy" only if some probe attempt       *)
(* against it received a 2xx response, and "unhealthy" when every attempt  *)
(* was rate-limited, failed or timed out.                                  *)
(***************************************************************************)
C27_HealthyOnlyAfterSuccess ==
    pc = "hdone" =>
        \A p \in 1..3 :
            IF p \in Positions
            THEN /\ attempts[p] >= 1
                 /\ health[p] \in {"healthy", "unhealthy"}
                 /\ health[p] = "healthy" => FailedAttempts(p) < attempts[p]
                 /\ n429[p] + nTrans[p] = attempts[p] => health[p] = "unhealthy"
            ELSE health[p] = "none" /\ attempts[p] = 0

\* the names of the configured providers
ConfiguredNames == { providers[i].name : i \in Positions }

(***************************************************************************)
(* C28: the tool handlers always reply with the non-empty text of the      *)
(* generation result; the reply carries the curated-fallback note exactly  *)
(* when no remote provider produced the text (no provider configured       *)
(* included) and the "Generated using <provider> (<model>)" note, naming a *)
(* configured provider, exactly when one did; the "Emergency fallback      *)
(* mode" reply is never produced.                                          *)
(***************************************************************************)
C28_ToolReply ==
    pc = "replied" =>
        /\ tool.reply.note \in {"generated", "curated"}
        /\ NonEmptyText(tool.reply.text)
        /\ tool.reply.text = Str(IF result.shape = "string" THEN result.str
                                   ELSE result.text.s)
        /\ tool.reply.note = "curated" <=> (answeredBy = 0 \/ ~Usable(extracted))
        /\ tool.reply.note = "generated" =>
              /\ tool.reply.provider \in ConfiguredNames
              /\ tool.reply.provider = providers[answeredBy].name
              /\ tool.reply.model = providers[answeredBy].model

(***************************************************************************)
(* C29: a result tagged with a remote provider never carries               *)
(* whitespace-only text: a 2xx response whose extracted text is empty      *)
(* after trimming is treated like empty text (the provider is skipped and  *)
(* the next one tried), so a returned record whose provider is not         *)
(* "fallback" has a text with a character that is not whitespace.          *)
(***************************************************************************)
C29_RemoteTextNotBlank ==
    /\ [](pc = "done" /\ result.shape = "record" /\ result.provider # "fallback"
            => NonBlankText(result.text))
    /\ [][ ( /\ pc = "json"
             /\ answeredBy' = idx
             /\ extracted'.ty = "string"
             /\ ~NonBlankText(extracted') )
           => (pc' = "call" /\ idx' = idx + 1 /\ result' = result) ]_vars

\* openai answered with a text of one blank; the loop stands at the second
\* provider
C29_Witness ==
    /\ Len(providers) >= 2
    /\ answeredBy = 1
    /\ extracted = Str(<< " " >>)
    /\ pc = "call"
    /\ idx = 2
    /\ result = NoResult

====
